---- MODULE Spec2Model ----
(***************************************************************************)
(* A model of rltk's record layer (rltk/record.py) and of its hash block   *)
(* generator (rltk/blocking/hash_block_generator.py).                      *)
(*                                                                         *)
(* Python values are tagged records [type, s]: a str carries its text in   *)
(* s, None and an int carry their printed form.  Block, BlockBlackList and *)
(* BlockGenerator are collaborators of the generator whose code is in      *)
(* other files; they are modelled from their documented contracts.         *)
(***************************************************************************)
EXTENDS Integers, Sequences, FiniteSets, TLC

VARIABLES
    \* ---- HashBlockGenerator.block ----
    dataset,        \* the dataset argument: the sequence of records it iterates
    function_,      \* the function_ argument: "None" or the name of a key function
    property_,      \* the property_ argument: "None" or an attribute name
    block_arg,      \* the block argument: [given, triples]
    black_list,     \* the block_black_list argument: [given, count]
    block,          \* the contents of the output Block
    pc,             \* "setup" | "loop" | "returned" | "error"
    idx,            \* position of the loop in the dataset (1-based)
    err,            \* the exception raised, "None" when none
    visited,        \* history: positions of the records the loop has read
    skipped,        \* history: positions of the records the black-list skipped
    block0,         \* history: the output Block when the loop started
    black_list0,    \* history: the black-list counts when the loop started
    \* ---- HashBlockGenerator.generate ----
    block1,         \* the block1 argument: its triples
    block2,         \* the block2 argument: its triples
    output_arg,     \* the output_block argument: [given, triples]
    output_block,   \* the contents of the output Block
    g_pc,           \* "setup" | "loop1" | "loop2" | "returned"
    g_todo,         \* the triples the running loop has still to yield
    \* ---- validate_record ----
    v_id,           \* obj.id of the record under validation
    v_result,       \* "pending" | "None" (returned) | "TypeError" | "ValueError"
    \* ---- Record.__eq__ ----
    eq_a,           \* a record [cls, id]
    eq_b,           \* a record [cls, id]
    eq_ab,          \* a.__eq__(b): "pending" | "True" | "False"
    eq_ba,          \* b.__eq__(a): "pending" | "True" | "False"
    \* ---- Record instances, cached_property, generate_record_property_cache ----
    kind,           \* the class of each instance
    raw,            \* obj.raw_object of each instance: [present, map]
    dict,           \* obj.__dict__ of each instance, raw_object aside
    calls,          \* history: invocations of each compute function, per instance
    last,           \* history: the latest attribute access [inst, attr, out, invoked]
    fin             \* outcome of generate_record_property_cache, per instance

blockVars == <<dataset, function_, property_, block_arg, black_list, block, pc,
               idx, err, visited, skipped, block0, black_list0>>

genVars == <<block1, block2, output_arg, output_block, g_pc, g_todo>>

valVars == <<v_id, v_result>>

eqVars == <<eq_a, eq_b, eq_ab, eq_ba>>

recVars == <<kind, raw, dict, calls, last, fin>>

vars == <<blockVars, genVars, valVars, eqVars, recVars>>

-----------------------------------------------------------------------------
(* Python values *)

Str(s) == [type |-> "str", s |-> s]

NoneValue == [type |-> "NoneType", s |-> "None"]

IntValue == [type |-> "int", s |-> "7"]

\* isinstance(value, str)
IsStr(value) == value.type = "str"

-----------------------------------------------------------------------------
(* The variables of the other operations when they are not modelled *)

IdleGenerate ==
    /\ block1 = {}
    /\ block2 = {}
    /\ output_arg = [given |-> FALSE, triples |-> {}]
    /\ output_block = {}
    /\ g_pc = "idle"
    /\ g_todo = {}

IdleValidate ==
    /\ v_id = [type |-> "NoneType", runs |-> <<>>]
    /\ v_result = "idle"

IdleEq ==
    /\ eq_a = [cls |-> "Record", id |-> "x"]
    /\ eq_b = [cls |-> "Record", id |-> "x"]
    /\ eq_ab = "idle"
    /\ eq_ba = "idle"

IdleRecords ==
    /\ kind = <<>>
    /\ raw = <<>>
    /\ dict = <<>>
    /\ calls = <<>>
    /\ last = [inst |-> "none", attr |-> "none",
               out |-> [type |-> "absent", runs |-> <<>>], invoked |-> FALSE]
    /\ fin = <<>>

-----------------------------------------------------------------------------
(* Bounds and input sets of the blocking pass *)

MaxRecords == 3

Threshold == 1

DatasetId == "A"

RecordIds == <<"a1", "a2", "a3", "a4">>

KeyValues == {Str("john"), Str("mary"), NoneValue}

KeyFunctions == {"name_of", "id_of"}

PropertyNames == {"name"}

\* A dataset: records with distinct ids, each with a `name` attribute.
Datasets ==
    UNION { { [i \in 1..n |-> [id |-> RecordIds[i], name |-> names[i]]] :
              names \in [1..n -> KeyValues] } : n \in 0..MaxRecords }

\* Output blocks a caller may pass in: an empty one, or one already holding
\* a record of another dataset.
GivenBlocks == { {}, {<<Str("john"), "B", "b1">>} }

-----------------------------------------------------------------------------
(* Collaborators: Block, BlockBlackList, BlockGenerator *)

\* Block.add(key, dataset_id, record_id): idempotent insertion of the triple.
Block_add(blk, key, ds_id, record_id) == blk \cup {<<key, ds_id, record_id>>}

\* BlockBlackList.has(key): the key is excluded once its associations exceed
\* the threshold.
BlackList_has(bl, key) == bl.count[key] > Threshold

\* BlockBlackList.add(key, block): one more association of key (counted up to
\* Threshold + 1, where the key is excluded for good).
BlackList_add(bl, key) ==
    [bl EXCEPT !.count[key] = IF @ > Threshold THEN @ ELSE @ + 1]

\* Every value a key extraction can produce.
AllValues == KeyValues \cup {Str(RecordIds[i]) : i \in 1..Len(RecordIds)}

EmptyCounts == [k \in AllValues |-> 0]

\* BlockGenerator._block_args_check(function_, property_, block): exactly one
\* of function_ and property_; the block given, or a fresh empty one.
block_args_ok(f, p) == (f # "None") # (p # "None")

block_args_block(b) == IF b.given THEN b.triples ELSE {}

-----------------------------------------------------------------------------
(* HashBlockGenerator.block *)

\* function_(r)
ApplyFunction(f, r) == IF f = "id_of" THEN Str(r.id) ELSE r.name

\* value = function_(r) if function_ else getattr(r, property_)
KeyOf(r) ==
    IF function_ # "None" THEN ApplyFunction(function_, r) ELSE r[property_]

\* getattr(r, None) raises TypeError
KeyReadable == function_ # "None" \/ property_ # "None"

\* Mutant of Skips: the black-list is never consulted.
SkipsNever(value) == FALSE

\* if block_black_list and block_black_list.has(value): continue
Skips(value) == black_list.given /\ BlackList_has(black_list, value)

\* Mutant of AddRecord: the record is filed under its id, not under its key.
AddRecordUnderId(blk, value, r) == Block_add(blk, Str(r.id), DatasetId, r.id)

\* block.add(value, dataset.id, r.id)
AddRecord(blk, value, r) == Block_add(blk, value, DatasetId, r.id)

\* if block_black_list: block_black_list.add(value, block)
InformBlackList(bl, value) == IF bl.given THEN BlackList_add(bl, value) ELSE bl

\* A caller records a key in the black-list before the pass (an earlier pass,
\* another generator, or a direct BlockBlackList.add).
blacklist_preload ==
    /\ pc = "setup"
    /\ black_list.given
    /\ \E k \in KeyValues :
         /\ ~BlackList_has(black_list, k)
         /\ black_list' = BlackList_add(black_list, k)
    /\ UNCHANGED <<dataset, function_, property_, block_arg, block, pc, idx,
                   err, visited, skipped, block0, black_list0>>
    /\ UNCHANGED <<genVars, valVars, eqVars, recVars>>

\* Mutant of block_call: the arguments are not checked before the loop.
block_call_unchecked ==
    /\ pc = "setup"
    /\ pc' = "loop"
    /\ block' = block_args_block(block_arg)
    /\ block0' = block'
    /\ black_list0' = black_list
    /\ idx' = 1
    /\ UNCHANGED <<dataset, function_, property_, block_arg, black_list, err,
                   visited, skipped>>
    /\ UNCHANGED <<genVars, valVars, eqVars, recVars>>

\* block = super()._block_args_check(function_, property_, block)
block_call ==
    /\ pc = "setup"
    /\ IF block_args_ok(function_, property_)
       THEN /\ pc' = "loop"
            /\ err' = err
            /\ block' = block_args_block(block_arg)
       ELSE /\ pc' = "error"
            /\ err' = "ConfigError"
            /\ block' = block
    /\ block0' = block'
    /\ black_list0' = black_list
    /\ idx' = 1
    /\ UNCHANGED <<dataset, function_, property_, block_arg, black_list,
                   visited, skipped>>
    /\ UNCHANGED <<genVars, valVars, eqVars, recVars>>

\* One iteration of `for r in dataset`.
block_step ==
    /\ pc = "loop"
    /\ idx <= Len(dataset)
    /\ visited' = visited \cup {idx}
    /\ LET r == dataset[idx]
           value == KeyOf(r)
       IN  IF ~KeyReadable
           THEN /\ pc' = "error"
                /\ err' = "TypeError"
                /\ UNCHANGED <<block, black_list, idx, skipped>>
           ELSE IF Skips(value)
           THEN /\ idx' = idx + 1
                /\ skipped' = skipped \cup {idx}
                /\ UNCHANGED <<block, black_list, pc, err>>
           ELSE IF ~IsStr(value)
           THEN /\ pc' = "error"
                /\ err' = "ValueError"
                /\ UNCHANGED <<block, black_list, idx, skipped>>
           ELSE /\ block' = AddRecord(block, value, r)
                /\ black_list' = InformBlackList(black_list, value)
                /\ idx' = idx + 1
                /\ UNCHANGED <<pc, err, skipped>>
    /\ UNCHANGED <<dataset, function_, property_, block_arg, block0, black_list0>>
    /\ UNCHANGED <<genVars, valVars, eqVars, recVars>>

\* return block
block_return ==
    /\ pc = "loop"
    /\ idx > Len(dataset)
    /\ pc' = "returned"
    /\ UNCHANGED <<dataset, function_, property_, block_arg, black_list, block,
                   idx, err, visited, skipped, block0, black_list0>>
    /\ UNCHANGED <<genVars, valVars, eqVars, recVars>>

\* The variables of block() when no blocking pass is modelled.
IdleBlock ==
    /\ dataset = <<>>
    /\ function_ = "None"
    /\ property_ = "None"
    /\ block_arg = [given |-> FALSE, triples |-> {}]
    /\ black_list = [given |-> FALSE, count |-> EmptyCounts]
    /\ block = {}
    /\ pc = "idle"
    /\ idx = 0
    /\ err = "None"
    /\ visited = {}
    /\ skipped = {}
    /\ block0 = {}
    /\ black_list0 = black_list

InitBlock ==
    /\ IdleGenerate /\ IdleValidate /\ IdleEq /\ IdleRecords
    /\ dataset \in Datasets
    /\ function_ \in {"None"} \cup KeyFunctions
    /\ property_ \in {"None"} \cup PropertyNames
    /\ block_arg \in {[given |-> FALSE, triples |-> {}]}
                     \cup {[given |-> TRUE, triples |-> b] : b \in GivenBlocks}
    /\ black_list \in {[given |-> g, count |-> EmptyCounts] : g \in BOOLEAN}
    /\ block = block_arg.triples
    /\ pc = "setup"
    /\ idx = 0
    /\ err = "None"
    /\ visited = {}
    /\ skipped = {}
    /\ block0 = block
    /\ black_list0 = black_list

NextBlock == blacklist_preload \/ block_call \/ block_step \/ block_return

SpecBlock == InitBlock /\ [][NextBlock]_vars

-----------------------------------------------------------------------------
(* Properties of HashBlockGenerator.block *)

Positions == 1..Len(dataset)

\* The triple block() files for the record at position i.
TripleOf(i) == <<KeyOf(dataset[i]), DatasetId, dataset[i].id>>

\* A key function only, no black-list, no output block passed in, and the
\* function returns a string for every record.
C1_Case ==
    /\ function_ # "None"
    /\ property_ = "None"
    /\ ~black_list.given
    /\ ~block_arg.given
    /\ \A i \in Positions : IsStr(KeyOf(dataset[i]))

\* C1: block(D, f) with no black-list and a fresh output block returns a
\* Block that holds, for every record of D, the pair (D.id, record.id) under
\* the key f(record) and under no other key, and that holds nothing else.
C1_BlockPartitionsDataset ==
    (pc = "returned" /\ C1_Case) =>
        /\ block = {TripleOf(i) : i \in Positions}
        /\ \A i \in Positions :
             {t[1] : t \in {u \in block : u[2] = DatasetId /\ u[3] = dataset[i].id}}
                 = {KeyOf(dataset[i])}

\* C1 witness: a pass over three records, two of which share a key.
C1_Witness ==
    /\ pc = "returned"
    /\ C1_Case
    /\ function_ = "name_of"
    /\ Len(dataset) = 3
    /\ dataset[1].name = dataset[3].name
    /\ dataset[1].name # dataset[2].name

\* C3: a record whose key is not a string makes block() fail at that record,
\* whatever the black-list holds: the record is not skipped, it is not added
\* to the output Block, and no record after it is read.
C3_NonStringKeyFails ==
    \A i \in visited :
        (KeyReadable /\ ~IsStr(KeyOf(dataset[i]))) =>
            /\ pc = "error"
            /\ idx = i
            /\ i \notin skipped
            /\ TripleOf(i) \notin block
            /\ \A j \in visited : j <= i

\* C4: a record whose key is excluded when the loop reaches it changes
\* neither the output Block nor the black-list, and the loop never removes
\* an entry from the output Block.
C4_ExcludedRecordContributesNothing ==
    [][ /\ ( /\ pc = "loop"
             /\ idx <= Len(dataset)
             /\ KeyReadable
             /\ black_list.given
             /\ BlackList_has(black_list, KeyOf(dataset[idx])) )
           => (block' = block /\ black_list' = black_list)
        /\ (pc = "loop" => block \subseteq block')
      ]_vars

\* C4 witness: a record was skipped under a key that was not excluded when
\* the pass began and under which an earlier record of the pass was added.
C4_Witness ==
    \E j \in skipped : \E m \in 1..(j - 1) :
        /\ m \notin skipped
        /\ KeyOf(dataset[m]) = KeyOf(dataset[j])
        /\ ~BlackList_has([given |-> TRUE, count |-> black_list0.count],
                          KeyOf(dataset[j]))
        /\ TripleOf(m) \in block
        /\ TripleOf(j) \notin block

\* C5: block() called with both function_ and property_, or with neither,
\* fails with a configuration error before any record is read and before the
\* output Block or the black-list is modified.
C5_ConfigErrorBeforeAnyRecord ==
    (pc # "setup" /\ ((function_ # "None") = (property_ # "None"))) =>
        /\ pc = "error"
        /\ err = "ConfigError"
        /\ visited = {}
        /\ block = block_arg.triples
        /\ black_list = black_list0

\* C5 witness: the call failed on both arguments given, with records to
\* read, an output Block and a black-list that holds a key.
C5_Witness ==
    /\ pc = "error"
    /\ err = "ConfigError"
    /\ function_ # "None"
    /\ property_ # "None"
    /\ Len(dataset) > 0
    /\ block_arg.given
    /\ block_arg.triples # {}
    /\ black_list.given
    /\ \E k \in KeyValues : black_list.count[k] > 0

\* C10: when block() stops on a key that is not a string, the error is a
\* TypeError, as for a record id that is not a string.
C10_NonStringKeyIsTypeError ==
    ( /\ pc = "error"
      /\ idx \in visited
      /\ KeyReadable
      /\ ~IsStr(KeyOf(dataset[idx])) ) => err = "TypeError"

-----------------------------------------------------------------------------
(* HashBlockGenerator.generate *)

MaxBlockSize == 2

\* The triples the input Blocks are drawn from.
TripleUniverse ==
    { <<Str("john"), "A", "a1">>, <<Str("mary"), "A", "a2">>,
      <<Str("john"), "B", "b1">>, <<Str("mary"), "B", "b1">> }

InputBlocks == {b \in SUBSET TripleUniverse : Cardinality(b) <= MaxBlockSize}

\* BlockGenerator._generate_args_check(output_block): the block given, or a
\* fresh empty one.
generate_args_block(b) == IF b.given THEN b.triples ELSE {}

\* Iterating a Block yields each of its triples once, in no fixed order.
Block_iter(blk) == blk

\* Mutant of SecondSource: the second loop reads block1 again.
SecondSourceIsFirst == block1

\* for block_id, ds_id, record_id in block2
SecondSource == block2

\* output_block = super()._generate_args_check(output_block)
generate_call ==
    /\ g_pc = "setup"
    /\ output_block' = generate_args_block(output_arg)
    /\ g_todo' = Block_iter(block1)
    /\ g_pc' = "loop1"
    /\ UNCHANGED <<block1, block2, output_arg>>
    /\ UNCHANGED <<blockVars, valVars, eqVars, recVars>>

\* for ... in block1: output_block.add(block_id, ds_id, record_id)
generate_step1 ==
    /\ g_pc = "loop1"
    /\ \E t \in g_todo :
         /\ output_block' = Block_add(output_block, t[1], t[2], t[3])
         /\ g_todo' = g_todo \ {t}
    /\ UNCHANGED <<block1, block2, output_arg, g_pc>>
    /\ UNCHANGED <<blockVars, valVars, eqVars, recVars>>

\* block1 is exhausted: the second loop starts
generate_second ==
    /\ g_pc = "loop1"
    /\ g_todo = {}
    /\ g_todo' = Block_iter(SecondSource)
    /\ g_pc' = "loop2"
    /\ UNCHANGED <<block1, block2, output_arg, output_block>>
    /\ UNCHANGED <<blockVars, valVars, eqVars, recVars>>

\* for ... in block2: output_block.add(block_id, ds_id, record_id)
generate_step2 ==
    /\ g_pc = "loop2"
    /\ \E t \in g_todo :
         /\ output_block' = Block_add(output_block, t[1], t[2], t[3])
         /\ g_todo' = g_todo \ {t}
    /\ UNCHANGED <<block1, block2, output_arg, g_pc>>
    /\ UNCHANGED <<blockVars, valVars, eqVars, recVars>>

\* return output_block
generate_return ==
    /\ g_pc = "loop2"
    /\ g_todo = {}
    /\ g_pc' = "returned"
    /\ UNCHANGED <<block1, block2, output_arg, output_block, g_todo>>
    /\ UNCHANGED <<blockVars, valVars, eqVars, recVars>>

InitGenerate ==
    /\ IdleBlock /\ IdleValidate /\ IdleEq /\ IdleRecords
    /\ block1 \in InputBlocks
    /\ block2 \in InputBlocks
    /\ output_arg \in {[given |-> FALSE, triples |-> {}]}
                      \cup {[given |-> TRUE, triples |-> b] : b \in GivenBlocks}
    /\ output_block = output_arg.triples
    /\ g_pc = "setup"
    /\ g_todo = {}

NextGenerate ==
    \/ generate_call
    \/ generate_step1
    \/ generate_second
    \/ generate_step2
    \/ generate_return

SpecGenerate == InitGenerate /\ [][NextGenerate]_vars

\* C2: the Block returned by generate(B1, B2) holds a triple if and only if
\* the triple is in B1 or in B2.
C2_GenerateIsUnion ==
    (g_pc = "returned" /\ ~output_arg.given) =>
        \A t \in TripleUniverse \cup output_block :
            t \in output_block <=> (t \in block1 \/ t \in block2)

\* C2 witness: generate returned on two Blocks that overlap and that each
\* hold a triple the other lacks.
C2_Witness ==
    /\ g_pc = "returned"
    /\ ~output_arg.given
    /\ block1 \cap block2 # {}
    /\ block1 \ block2 # {}
    /\ block2 \ block1 # {}

-----------------------------------------------------------------------------
(* validate_record *)

\* re_record_id = re.compile(r'^[^*]{1,255}$'): the bound of the repetition
MaxIdLen == 255

MaxRuns == 2

NewLine == "\n"

\* A str is kept run-length encoded: a sequence of runs [ch, n], n >= 1.
Text(runs) == [type |-> "str", runs |-> runs]

NoneId == [type |-> "NoneType", runs |-> <<>>]

IntId == [type |-> "int", runs |-> <<>>]

Runs == [ch : {"a", "*", NewLine}, n : {1, 254, 255, 256}]

IdInputs ==
    {NoneId, IntId}
        \cup UNION { {Text(r) : r \in [1..n -> Runs]} : n \in 0..MaxRuns }

RECURSIVE StrLen(_)
\* len(s)
StrLen(runs) == IF runs = <<>> THEN 0 ELSE Head(runs).n + StrLen(Tail(runs))

RECURSIVE NonStarPrefix(_)
\* The number of characters before the first '*' of s.
NonStarPrefix(runs) ==
    IF runs = <<>> \/ Head(runs).ch = "*"
    THEN 0
    ELSE Head(runs).n + NonStarPrefix(Tail(runs))

\* '*' in s
HasStar(runs) == \E i \in 1..Len(runs) : runs[i].ch = "*"

\* `$` at offset k of s: the end of s, or just before a line break that ends s.
DollarAt(runs, k) ==
    \/ k = StrLen(runs)
    \/ /\ k = StrLen(runs) - 1
       /\ runs[Len(runs)].ch = NewLine

\* re_record_id.match(s): some k in 1..255 characters other than '*' from the
\* start of s, and then `$`.
re_record_id_match(runs) ==
    \E k \in 1..MaxIdLen : k <= NonStarPrefix(runs) /\ DollarAt(runs, k)

\* validate_record(obj), by obj.id: the exception raised, "None" on return.
validate_record(id) ==
    IF id.type # "str" THEN "TypeError"
    ELSE IF ~re_record_id_match(id.runs) THEN "ValueError"
    ELSE "None"

validate_call ==
    /\ v_result = "pending"
    /\ v_result' = validate_record(v_id)
    /\ UNCHANGED v_id
    /\ UNCHANGED <<blockVars, genVars, eqVars, recVars>>

InitValidate ==
    /\ IdleBlock /\ IdleGenerate /\ IdleEq /\ IdleRecords
    /\ v_id \in IdInputs
    /\ v_result = "pending"

NextValidate == validate_call

SpecValidate == InitValidate /\ [][NextValidate]_vars

\* C9: validate_record accepts a record if and only if its id is a string of
\* 1 to 255 characters none of which is '*'; an id that is not a string fails
\* with a type error, any other rejected id with a value error.
C9_ValidateAcceptsExactly ==
    v_result \notin {"pending", "idle"} =>
        LET valid == /\ v_id.type = "str"
                     /\ StrLen(v_id.runs) \in 1..MaxIdLen
                     /\ ~HasStar(v_id.runs)
        IN  /\ (v_result = "None") <=> valid
            /\ v_id.type # "str" => v_result = "TypeError"
            /\ (v_id.type = "str" /\ ~valid) => v_result = "ValueError"

-----------------------------------------------------------------------------
(* Record.__eq__ *)

\* class Record(object); class AutoGeneratedRecord(Record); and two record
\* kinds of a user: class Person(Record), class Student(Person).
Parent(cls) ==
    CASE cls = "Record" -> "object"
      [] cls = "AutoGeneratedRecord" -> "Record"
      [] cls = "Person" -> "Record"
      [] cls = "Student" -> "Person"
      [] OTHER -> "object"

RECURSIVE Mro(_)
\* cls.__mro__
Mro(cls) == IF cls = "object" THEN <<"object">> ELSE <<cls>> \o Mro(Parent(cls))

\* Mutant of isinstance: the class of obj itself, not one derived from it.
isinstance_exact(obj, cls) == obj.cls = cls

\* isinstance(obj, cls)
isinstance(obj, cls) == \E i \in 1..Len(Mro(obj.cls)) : Mro(obj.cls)[i] = cls

\* Record.__eq__(self, other)
Record_eq(self, other) ==
    IF ~isinstance(other, self.cls) THEN FALSE ELSE self.id = other.id

PyBool(b) == IF b THEN "True" ELSE "False"

EqClasses == {"AutoGeneratedRecord", "Person", "Student"}

EqIds == {"x", "y", "z"}

eq_call_ab ==
    /\ eq_ab = "pending"
    /\ eq_ab' = PyBool(Record_eq(eq_a, eq_b))
    /\ UNCHANGED <<eq_a, eq_b, eq_ba>>
    /\ UNCHANGED <<blockVars, genVars, valVars, recVars>>

eq_call_ba ==
    /\ eq_ba = "pending"
    /\ eq_ba' = PyBool(Record_eq(eq_b, eq_a))
    /\ UNCHANGED <<eq_a, eq_b, eq_ab>>
    /\ UNCHANGED <<blockVars, genVars, valVars, recVars>>

InitEq ==
    /\ IdleBlock /\ IdleGenerate /\ IdleValidate /\ IdleRecords
    /\ eq_a \in [cls : EqClasses, id : EqIds]
    /\ eq_b \in [cls : EqClasses, id : EqIds]
    /\ eq_ab = "pending"
    /\ eq_ba = "pending"

NextEq == eq_call_ab \/ eq_call_ba

SpecEq == InitEq /\ [][NextEq]_vars

\* C6: a.__eq__(b) is true if and only if a and b are of the same class and
\* have equal ids, and a.__eq__(b) and b.__eq__(a) agree.
C6_EqualIffSameClassAndId ==
    /\ eq_ab \in {"True", "False"} =>
         (eq_ab = "True") <=> (eq_a.cls = eq_b.cls /\ eq_a.id = eq_b.id)
    /\ (eq_ab \in {"True", "False"} /\ eq_ba \in {"True", "False"}) =>
         eq_ab = eq_ba

-----------------------------------------------------------------------------
(* Record instances: cached_property and generate_record_property_cache *)

MaxCalls == 2

Instances == {"r1", "r2"}

Attrs == {"id", "name"}

\* A key a mapping does not hold.
Absent == [type |-> "absent", runs |-> <<>>]

\* An exception, as the outcome of an attribute access.
Raised(name) == [type |-> name, runs |-> <<>>]

IsRaised(v) == v.type \in {"AttributeError", "KeyError"}

GoodId == Text(<<[ch |-> "a", n |-> 1]>>)

BadId == Text(<<[ch |-> "*", n |-> 1]>>)

NameA == Text(<<[ch |-> "a", n |-> 2]>>)

NameB == Text(<<[ch |-> "a", n |-> 3]>>)

\* Raw objects a record is built from.
RawObjects ==
    { [id |-> i, name |-> nm] :
        i \in {GoodId, BadId, NoneId, Absent}, nm \in {NameA, NoneId} }

RecordClasses == {"AutoGeneratedRecord", "Person", "Student"}

\* The cached_property attributes in cls.__dict__, in definition order:
\* AutoGeneratedRecord declares id; the user's Person declares id and name,
\* and Student, derived from Person, declares its own id.
OwnCached(cls) ==
    CASE cls = "AutoGeneratedRecord" -> <<"id">>
      [] cls = "Person" -> <<"id", "name">>
      [] cls = "Student" -> <<"id">>
      [] OTHER -> <<>>

SeqRange(q) == {q[k] : k \in 1..Len(q)}

\* The cached attributes an instance of cls exposes: found along cls.__mro__.
CachedAttrs(cls) == UNION {SeqRange(OwnCached(Mro(cls)[k])) : k \in 1..Len(Mro(cls))}

RECURSIVE remove_raw_object_flag(_)
\* cls.remove_raw_object: False on Record, set True by @remove_raw_object on
\* AutoGeneratedRecord and on the user's Student, inherited otherwise.
remove_raw_object_flag(cls) ==
    IF cls \in {"AutoGeneratedRecord", "Student"} THEN TRUE
    ELSE IF cls \in {"Record", "object"} THEN FALSE
    ELSE remove_raw_object_flag(Parent(cls))

\* Record.__init__ and AutoGeneratedRecord.__init__: the instance __dict__.
\* AutoGeneratedRecord sets every key of the raw object but `id` as an attribute.
InitialDict(cls, r) ==
    [p \in Attrs |-> IF cls = "AutoGeneratedRecord" /\ p # "id" THEN r[p] ELSE Absent]

\* self.func(obj): every compute function here returns self.raw_object[name].
func(r, p) ==
    IF ~r.present THEN Raised("AttributeError")
    ELSE IF r.map[p] = Absent THEN Raised("KeyError")
    ELSE r.map[p]

\* Mutant of cached_get: the cache is tested by truth value, not by presence.
cached_get_truthy(d, r, p) ==
    IF d[p] = Absent \/ d[p] = NoneId
    THEN LET v == func(r, p)
         IN  [dict |-> IF IsRaised(v) THEN d ELSE [d EXCEPT ![p] = v],
              out |-> v, invoked |-> TRUE]
    ELSE [dict |-> d, out |-> d[p], invoked |-> FALSE]

\* cached_property.__get__(obj, cls), on the instance __dict__ d and the raw
\* object r: the __dict__ after it, the value returned or exception raised,
\* and whether func was invoked.
cached_get(d, r, p) ==
    IF d[p] = Absent
    THEN LET v == func(r, p)
         IN  [dict |-> IF IsRaised(v) THEN d ELSE [d EXCEPT ![p] = v],
              out |-> v, invoked |-> TRUE]
    ELSE [dict |-> d, out |-> d[p], invoked |-> FALSE]

RECURSIVE CacheAll(_, _, _)
\* for prop_name, prop_type in obj.__class__.__dict__.items(): getattr(obj,
\* prop_name) for each cached_property; stops at the first exception.
CacheAll(d, r, props) ==
    IF props = <<>>
    THEN [dict |-> d, err |-> "None", invoked |-> {}]
    ELSE LET g == cached_get(d, r, Head(props))
             ran == IF g.invoked THEN {Head(props)} ELSE {}
         IN  IF IsRaised(g.out)
             THEN [dict |-> g.dict, err |-> g.out.type, invoked |-> ran]
             ELSE LET rest == CacheAll(g.dict, r, Tail(props))
                  IN  [rest EXCEPT !.invoked = @ \cup ran]

\* generate_record_property_cache(obj): the instance after it and the outcome
\* ("None" on return, else the exception).
generate_record_property_cache(cls, d, r) ==
    LET c == CacheAll(d, r, OwnCached(cls))
    IN  IF c.err # "None"
        THEN [dict |-> c.dict, raw |-> r, err |-> c.err, invoked |-> c.invoked]
        ELSE
        \* validate_record(obj) reads obj.id
        LET g == cached_get(c.dict, r, "id")
            ran == c.invoked \cup (IF g.invoked THEN {"id"} ELSE {})
        IN  IF IsRaised(g.out)
            THEN [dict |-> g.dict, raw |-> r, err |-> g.out.type, invoked |-> ran]
            ELSE IF validate_record(g.out) # "None"
            THEN [dict |-> g.dict, raw |-> r, err |-> validate_record(g.out),
                  invoked |-> ran]
            ELSE IF ~remove_raw_object_flag(cls)
            THEN [dict |-> g.dict, raw |-> r, err |-> "None", invoked |-> ran]
            \* del obj.__dict__['raw_object']
            ELSE IF ~r.present
            THEN [dict |-> g.dict, raw |-> r, err |-> "KeyError", invoked |-> ran]
            ELSE [dict |-> g.dict, raw |-> [r EXCEPT !.present = FALSE],
                  err |-> "None", invoked |-> ran]

\* getattr(obj, p) for a cached attribute p of the instance
attribute_access ==
    \E i \in Instances : \E p \in CachedAttrs(kind[i]) :
        /\ calls[i][p] < MaxCalls
        /\ LET g == cached_get(dict[i], raw[i], p)
           IN  /\ dict' = [dict EXCEPT ![i] = g.dict]
               /\ calls' = [calls EXCEPT ![i][p] = IF g.invoked THEN @ + 1 ELSE @]
               /\ last' = [inst |-> i, attr |-> p, out |-> g.out,
                           invoked |-> g.invoked]
        /\ UNCHANGED <<kind, raw, fin>>
        /\ UNCHANGED <<blockVars, genVars, valVars, eqVars>>

\* obj.raw_object['name'] = NameB: the caller changes the raw object
raw_change ==
    \E i \in Instances :
        /\ raw[i].present
        /\ raw[i].map["name"] # NameB
        /\ raw' = [raw EXCEPT ![i].map["name"] = NameB]
        /\ UNCHANGED <<kind, dict, calls, last, fin>>
        /\ UNCHANGED <<blockVars, genVars, valVars, eqVars>>

\* generate_record_property_cache(obj)
generate_record_property_cache_call ==
    \E i \in Instances :
        /\ fin[i] # "None"
        /\ \A p \in Attrs : calls[i][p] < MaxCalls
        /\ LET f == generate_record_property_cache(kind[i], dict[i], raw[i])
           IN  /\ dict' = [dict EXCEPT ![i] = f.dict]
               /\ raw' = [raw EXCEPT ![i] = f.raw]
               /\ fin' = [fin EXCEPT ![i] = f.err]
               /\ calls' = [calls EXCEPT ![i] =
                              [p \in Attrs |-> IF p \in f.invoked THEN @[p] + 1 ELSE @[p]]]
        /\ UNCHANGED <<kind, last>>
        /\ UNCHANGED <<blockVars, genVars, valVars, eqVars>>

\* An order on (class, raw object): the two instances are interchangeable, so
\* only the pairs with r1 not above r2 are started from.
Rank(cls, r) ==
    (CASE cls = "AutoGeneratedRecord" -> 0 [] cls = "Person" -> 1 [] OTHER -> 2) * 8
    + (CASE r.id = GoodId -> 0 [] r.id = BadId -> 1 [] r.id = NoneId -> 2 [] OTHER -> 3) * 2
    + (IF r.name = NameA THEN 0 ELSE 1)

InitRecords ==
    /\ IdleBlock /\ IdleGenerate /\ IdleValidate /\ IdleEq
    /\ kind \in [Instances -> RecordClasses]
    /\ \E rs \in [Instances -> RawObjects] :
         /\ Rank(kind["r1"], rs["r1"]) <= Rank(kind["r2"], rs["r2"])
         /\ raw = [i \in Instances |-> [present |-> TRUE, map |-> rs[i]]]
         /\ dict = [i \in Instances |-> InitialDict(kind[i], rs[i])]
    /\ calls = [i \in Instances |-> [p \in Attrs |-> 0]]
    /\ last = [inst |-> "none", attr |-> "none", out |-> Absent, invoked |-> FALSE]
    /\ fin = [i \in Instances |-> "pending"]

NextRecords == attribute_access \/ raw_change \/ generate_record_property_cache_call

SpecRecords == InitRecords /\ [][NextRecords]_vars

\* What one step may do to the cached attribute p of instance i: a stored
\* value is never replaced and func is not invoked again once it is stored; an
\* access that finds a stored value returns it without invoking func, whatever
\* the raw object holds by then; an access that finds none invokes func on the
\* raw object of this instance; and it touches no other instance.
C7_AccessLaw(i, p) ==
    /\ dict[i][p] # Absent =>
         /\ dict'[i][p] = dict[i][p]
         /\ calls'[i][p] = calls[i][p]
    /\ (last' # last /\ last'.inst = i /\ last'.attr = p) =>
         /\ dict[i][p] # Absent => (~last'.invoked /\ last'.out = dict[i][p])
         /\ dict[i][p] = Absent => (last'.invoked /\ last'.out = func(raw[i], p))
         /\ ~IsRaised(last'.out) => dict'[i][p] = last'.out
         /\ \A j \in Instances \ {i} :
              dict'[j] = dict[j] /\ calls'[j] = calls[j] /\ raw'[j] = raw[j]

\* C7 as stated: for every instance and cached attribute, func is invoked at
\* most once over any sequence of accesses, every later access returns the
\* value the first access stored, and no instance affects another.
C7_InvokedAtMostOnce ==
    [][ \A i \in Instances : \A p \in CachedAttrs(kind[i]) :
          C7_AccessLaw(i, p) /\ calls'[i][p] <= 1 ]_vars

\* C7 as amended: once an access has stored a value, func is never invoked
\* again for that instance and attribute and every later access returns the
\* stored value, also when it is None and also after the raw object has
\* changed or been removed; an invocation that raises stores nothing, so the
\* next access invokes func again; and no instance affects another.
C7_StoredValueIsKept ==
    [][ \A i \in Instances : \A p \in CachedAttrs(kind[i]) :
          C7_AccessLaw(i, p) ]_vars

\* C7 witness: an access returned a stored None without invoking func, after
\* the raw object was changed and then removed, while the other instance has
\* nothing stored for that attribute.
C7_Witness ==
    \E i \in Instances : \E j \in Instances \ {i} :
        /\ last = [inst |-> i, attr |-> "name", out |-> NoneId, invoked |-> FALSE]
        /\ dict[i]["name"] = NoneId
        /\ calls[i]["name"] = 1
        /\ ~raw[i].present
        /\ raw[i].map["name"] = NameB
        /\ "name" \in CachedAttrs(kind[j])
        /\ dict[j]["name"] = Absent

\* C8: once generate_record_property_cache has returned, every cached
\* attribute the record exposes, declared on its class or inherited, is
\* stored and can be read; and the raw object is gone only for a class flagged
\* removable, and only when the call has returned.
C8_FinalizeCachesEveryAttribute ==
    \A i \in Instances :
        /\ fin[i] = "None" =>
             \A p \in CachedAttrs(kind[i]) :
                 /\ dict[i][p] # Absent
                 /\ ~IsRaised(cached_get(dict[i], raw[i], p).out)
        /\ ~raw[i].present =>
             (remove_raw_object_flag(kind[i]) /\ fin[i] = "None")

====
